---- MODULE Spec2Model ----
(***************************************************************************)
(* Model of akkudoktoreos/class_optimize.py: the genome codec, the typed   *)
(* variation operators, the fitness function and the mu+lambda evolution   *)
(* loop of class optimization_problem.                                     *)
(*                                                                         *)
(* Money is counted in cents (0.01 EUR), state of charge in percent.       *)
(* Python's module-level random generator is a deterministic generator     *)
(* with a state: it is modelled by a small congruential generator, seeded  *)
(* by random.seed and advanced by every draw.  Without a seed its first    *)
(* state is arbitrary.                                                     *)
(***************************************************************************)
EXTENDS Integers, Sequences, FiniteSets, TLC

VARIABLES
    prediction_hours,   \* self.prediction_hours (H)
    fixed_eauto_hours,  \* self.fixed_eauto_hours = prediction_hours - optimization_hours
    fix_seed,           \* self.fix_seed (NoSeed for None)
    optimize_ev,        \* self.optimize_ev
    opti_param,         \* self.opti_param
    rng,                \* state of the module-level generator of `random`
    parameter,          \* the caller's parameter dict (the fields the optimizer reads)
    start_hour,         \* argument start_hour of optimierung_ems
    worst_case,         \* argument worst_case of optimierung_ems
    ngen,               \* argument ngen of optimierung_ems
    pc,                 \* position of the running call
    population,         \* list population of optimize / eaMuPlusLambda
    offspring,          \* list offspring of eaMuPlusLambda
    hof,                \* tools.HallOfFame(1): <<>> or <<individual>>
    logbook,            \* recorded statistics: the minimum fitness per generation
    gen,                \* generation counter of eaMuPlusLambda
    calls,              \* number of optimierung_ems calls started on this optimizer
    result,             \* what the last finished call returned
    first_result,       \* what the first finished call returned
    evaluated           \* fitness values assigned by toolbox.evaluate in this call

vars == <<prediction_hours, fixed_eauto_hours, fix_seed, optimize_ev, opti_param, rng,
          parameter, start_hour, worst_case, ngen, pc, population, offspring, hof,
          logbook, gen, calls, result, first_result, evaluated>>

----------------------------------------------------------------------------
(* Bounds of the model *)

MaxH == 2          \* prediction_hours ranges over 1..MaxH
MaxGen == 2        \* ngen ranges over 0..MaxGen
PopN == 2          \* size of the initial population (n=300 in optimize)
Mu == 2            \* survivors per generation (mu=100)
Lambda == 2        \* offspring per generation (lambda_=150)
MaxCalls == 2      \* optimierung_ems calls made on one optimizer
MaxSeed == 2       \* fixed_seed ranges over 0..MaxSeed, or is None
MaxEntropy == 1    \* without a seed the generator starts in one of 1 + MaxEntropy states
NumCurrents == 2   \* len(possible_ev_charge_currents)
HourSpan == 1      \* start_hour is 23 - HourSpan
EautoSoc == 50     \* parameter["eauto_soc"], in percent

(* Program constants *)

LowDischarge == -5      \* random.randint(-5, 1), mutUniformInt low=-5
UpDischarge == 1
LastHour == 23          \* random.randint(start_hour, 23)
TournSize == 3          \* tools.selTournament, tournsize=3
StartCopies == 3        \* for _ in range(3): population.insert(0, ...)
Strafe == 1000          \* strafe = 10 EUR, in cents
IdlePenalty == 1        \* 0.01 EUR, in cents
Sentinel == 10000000    \* 100000.0 EUR, in cents
IndpbNum == 1           \* indpb = 0.1
IndpbDen == 10
CxpbNum == 5            \* cxpb = 0.5
MutpbNum == 5           \* mutpb = 0.5
ProbDen == 10

NoSeed == -1            \* fixed_seed is None
None == <<>>            \* Python's None where a list is expected
NaN == <<0, 0>>         \* numpy's nan, the value of 0 / 0

----------------------------------------------------------------------------
(* The generator behind random.seed, random.random, random.randint,        *)
(* random.choice and random.sample.                                        *)

RngMod == 64
RngMul == 13
RngInc == 11
RngShift == 4
RngRange == RngMod \div RngShift

\* random.seed(s)
Seed(s) == (s * 7 + 3) % RngMod

\* The states the generator may start in when no seed is given
EntropyStates == {(k * 21 + 1) % RngMod : k \in 0 .. MaxEntropy}

RngNext(r) == (RngMul * r + RngInc) % RngMod

RngOut(r) == r \div RngShift

\* random.randint(a, b): <<value, generator state>>; the caller checks a <= b
randint(r, a, b) == <<a + (RngOut(RngNext(r)) % (b - a + 1)), RngNext(r)>>

\* random.random() < num / den: <<truth value, generator state>>
random_lt(r, num, den) == <<RngOut(RngNext(r)) * den < num * RngRange, RngNext(r)>>

----------------------------------------------------------------------------
(* Python lists *)

MinOf(a, b) == IF a < b THEN a ELSE b

MaxOf(a, b) == IF a > b THEN a ELSE b

\* s[a:b] for 0 <= a, 0 <= b
PySlice(s, a, b) == SubSeq(s, MinOf(a, Len(s)) + 1, MinOf(b, Len(s)))

\* s[a:b] = new
PySliceAssign(s, a, b, new) ==
    LET lo == MinOf(a, Len(s))
        hi == MaxOf(lo, MinOf(b, Len(s)))
    IN  SubSeq(s, 1, lo) \o new \o SubSeq(s, hi + 1, Len(s))

\* [0] * n
Zeros(n) == [i \in 1 .. n |-> 0]

RECURSIVE SeqSum(_)
SeqSum(s) == IF s = <<>> THEN 0 ELSE Head(s) + SeqSum(Tail(s))

\* sum(1 for x in s if x != 0)
CountNonZero(s) == Cardinality({i \in 1 .. Len(s) : s[i] # 0})

\* sum(1 for x in s if x == 0)
CountZero(s) == Cardinality({i \in 1 .. Len(s) : s[i] = 0})

----------------------------------------------------------------------------
(* An individual: creator.Individual, a list with a fitness and, once it   *)
(* was evaluated without failure, the attribute extra_data.                *)
(* fitness is fitness.values: <<>> when invalid, <<f>> when valid.         *)
(* extra_data is <<>> when the attribute is absent.                        *)

Individual(genes) == [genes |-> genes, fitness |-> <<>>, extra_data |-> <<>>]

HasExtraData(ind) == ind.extra_data # <<>>

FitnessValid(ind) == ind.fitness # <<>>

\* del ind.fitness.values
DelFitness(ind) == [ind EXCEPT !.fitness = <<>>]

Haushaltsgeraete == opti_param.haushaltsgeraete

----------------------------------------------------------------------------
(* Genome codec *)

\* [attr() for _ in range(n)] with attr = random.randint(a, b): <<list, generator state>>
RECURSIVE attr_list(_, _, _, _)
attr_list(r, n, a, b) ==
    IF n = 0 THEN <<(<<>>), r>>
    ELSE LET d == randint(r, a, b)
             rest == attr_list(d[2], n - 1, a, b)
         IN  <<(<<d[1]>>) \o rest[1], rest[2]>>

\* create_individual: <<individual, generator state>>
create_individual(r) ==
    LET discharge == attr_list(r, prediction_hours, LowDischarge, UpDischarge)
        ev == IF optimize_ev
              THEN attr_list(discharge[2], prediction_hours, 0, NumCurrents - 1)
              ELSE <<(<<>>), discharge[2]>>
        hour == IF Haushaltsgeraete > 0
                THEN attr_list(ev[2], 1, start_hour, LastHour)
                ELSE <<(<<>>), ev[2]>>
    IN  <<Individual(discharge[1] \o ev[1] \o hour[1]), hour[2]>>

\* split_individual: <<discharge_hours_bin, eautocharge_hours_float, spuelstart_int>>
\* (spuelstart_int is <<hour>>, or None)
split_individual(genes) ==
    <<PySlice(genes, 0, prediction_hours),
      PySlice(genes, prediction_hours, prediction_hours * 2),
      IF (~opti_param.is_none) /\ Haushaltsgeraete > 0
      THEN <<genes[Len(genes)]>> ELSE None>>

RECURSIVE ArrMax(_)
ArrMax(s) == IF Len(s) = 1 THEN s[1] ELSE MaxOf(Head(s), ArrMax(Tail(s)))

\* x / m of numpy: the fraction <<x, m>>, and nan for 0 / 0
Divide(x, m) == IF m = 0 THEN NaN ELSE <<x, m>>

\* split_charge_discharge: <<charge, discharge>>, for a non-empty array
split_charge_discharge(discharge_hours_bin) ==
    LET n == Len(discharge_hours_bin)
        raw == [h \in 1 .. n |->
                   -(IF discharge_hours_bin[h] < 0 THEN discharge_hours_bin[h] ELSE 0)]
        charge == [h \in 1 .. n |-> Divide(raw[h], ArrMax(raw))]
        discharge == [h \in 1 .. n |->
                   IF discharge_hours_bin[h] > 0 THEN discharge_hours_bin[h] ELSE 0]
    IN  <<charge, discharge>>

----------------------------------------------------------------------------
(* Collaborators that are not part of class_optimize.py: the configured    *)
(* charge currents and the energy management simulation.                   *)

AmpStep == 6

\* possible_ev_charge_currents: index 0 is "no charge"
possible_ev_charge_currents == [i \in 1 .. NumCurrents |-> (i - 1) * AmpStep]

PreisCent == 30         \* price of one charged unit
EinspeiseCent == 7      \* revenue of one discharged unit
SocPerAmp == 5          \* percent of EV state of charge per amp-hour
SocStep == AmpStep * SocPerAmp   \* what one hour at the lowest current adds
RestwertCent == 5       \* parameter preis_euro_pro_wh_akku, per unit of energy

IsCharging(c) == c # NaN /\ c[1] > 0

\* The simulator takes vectors of length H and an appliance hour in
\* start_hour .. 23; anything else makes it raise.
\* ev is <<currents>> when set_eauto_charge_hours was called, else None.
SimRaises(charge, discharge, ev, spuelstart) ==
    \/ Len(charge) # prediction_hours
    \/ Len(discharge) # prediction_hours
    \/ ev # None /\ Len(ev[1]) # prediction_hours
    \/ spuelstart # None /\ spuelstart[1] \notin start_hour .. LastHour

\* ems.simuliere(start_hour) and the state of ems after it
simuliere(charge, discharge, ev, spuelstart) ==
    LET charged == Cardinality({h \in 1 .. Len(charge) : IsCharging(charge[h])})
        discharged == SeqSum(discharge)
        amps == IF ev = None THEN 0 ELSE SeqSum(ev[1])
    IN  [Gesamtbilanz_Euro |-> PreisCent * (charged + amps) - EinspeiseCent * discharged,
         Gesamt_Verluste |-> charged + discharged,
         ladezustand_in_prozent |-> MinOf(100, parameter.eauto_soc + SocPerAmp * amps),
         aktueller_energieinhalt |-> MaxOf(0, prediction_hours + charged - discharged)]

----------------------------------------------------------------------------
(* Fitness *)

\* possible_ev_charge_currents[i] raises IndexError
IndexError(i) == i > NumCurrents - 1 \/ i < -NumCurrents

PyIndex(i) == possible_ev_charge_currents[(i % NumCurrents) + 1]

\* evaluate_inner: [raised, o]
evaluate_inner(genes) ==
    LET parts == split_individual(genes)
        spuelstart == IF Haushaltsgeraete > 0 THEN parts[3] ELSE None
        cd == split_charge_discharge(parts[1])
        bad_index == optimize_ev /\ \E i \in 1 .. Len(parts[2]) : IndexError(parts[2][i])
        ev == IF optimize_ev
              THEN <<[i \in 1 .. Len(parts[2]) |-> PyIndex(parts[2][i])]>>
              ELSE None
    IN  IF parts[1] = <<>> \/ bad_index
        THEN [raised |-> TRUE]
        ELSE IF SimRaises(cd[1], cd[2], ev, spuelstart)
        THEN [raised |-> TRUE]
        ELSE [raised |-> FALSE, o |-> simuliere(cd[1], cd[2], ev, spuelstart)]

\* lines 211-213: the small penalty for not discharging
idle_penalty(discharge_hours_bin) == IdlePenalty * CountZero(discharge_hours_bin)

\* lines 223-226: the penalty on the hours with a non-zero EV gene
ev_penalty(shortfall, eautocharge_hours_float) ==
    IF shortfall <= 0 THEN Strafe * CountNonZero(eautocharge_hours_float) ELSE 0

\* lines 237-240: the penalty for the unmet state of charge
soc_penalty(shortfall) == MaxOf(0, shortfall * Strafe)

\* evaluate: [values, extra_data], the fitness returned and the attribute
\* extra_data of the individual after the call
evaluate(ind) ==
    LET e == evaluate_inner(ind.genes)
    IN  IF e.raised
        THEN [values |-> <<Sentinel>>, extra_data |-> ind.extra_data]
        ELSE
        LET o == e.o
            parts == split_individual(ind.genes)
            shortfall == parameter.eauto_min_soc - o.ladezustand_in_prozent
            restwert_akku == o.aktueller_energieinhalt * RestwertCent
            gesamtbilanz ==
                o.Gesamtbilanz_Euro * (IF worst_case THEN -1 ELSE 1)
                + idle_penalty(parts[1])
                + ev_penalty(shortfall, parts[2])
                + (soc_penalty(shortfall) - restwert_akku)
        IN  [values |-> <<gesamtbilanz>>,
             extra_data |-> <<o.Gesamtbilanz_Euro, o.Gesamt_Verluste, shortfall>>]

\* ind.fitness.values = toolbox.evaluate(ind), for the individuals with an
\* invalid fitness
EvaluateInvalid(inds) ==
    [i \in 1 .. Len(inds) |->
        IF FitnessValid(inds[i]) THEN inds[i]
        ELSE LET e == evaluate(inds[i])
             IN  [inds[i] EXCEPT !.fitness = e.values, !.extra_data = e.extra_data]]

----------------------------------------------------------------------------
(* Variation operators *)

\* A list with the element x in front: <<list, generator state>>
Cons(x, rest) == <<(<<x>>) \o rest[1], rest[2]>>

\* tools.mutUniformInt(individual, low, up, indpb): <<list, generator state>>
RECURSIVE mutUniformInt(_, _, _, _)

\* if random.random() < indpb: individual[i] = random.randint(xl, xu)
mutGene(hit, x, low, up) == IF hit[1] THEN randint(hit[2], low, up) ELSE <<x, hit[2]>>

\* The genes after the one drawn as d = <<gene, generator state>>
mutRest(d, tail, low, up) == Cons(d[1], mutUniformInt(d[2], tail, low, up))

mutUniformInt(r, individual, low, up) ==
    IF individual = <<>> THEN <<(<<>>), r>>
    ELSE mutRest(mutGene(random_lt(r, IndpbNum, IndpbDen), Head(individual), low, up),
                 Tail(individual), low, up)

\* individual[a:b] = m, for m = <<list, generator state>>
SetSlice(genes, a, b, m) == <<PySliceAssign(genes, a, b, m[1]), m[2]>>

\* lines 66-68: the discharge state genes; <<genes, generator state>>
mutate_discharge_part(r, genes) ==
    SetSlice(genes, 0, prediction_hours,
             mutUniformInt(r, PySlice(genes, 0, prediction_hours),
                           LowDischarge, UpDischarge))

\* lines 74-75: the fixed hours set to 0, the part written back
ev_charge_part_mutated(genes, m) ==
    <<PySliceAssign(genes, prediction_hours, prediction_hours * 2,
                    PySliceAssign(m[1], prediction_hours - fixed_eauto_hours, Len(m[1]),
                                  Zeros(fixed_eauto_hours))),
      m[2]>>

\* lines 70-75: the EV charging indices; g and the value are <<genes, generator state>>
mutate_ev_part(g) ==
    IF ~optimize_ev THEN g
    ELSE ev_charge_part_mutated(
             g[1],
             mutUniformInt(g[2], PySlice(g[1], prediction_hours, prediction_hours * 2),
                           0, NumCurrents - 1))

\* line 81: individual[-1] = spuelstart_part[0]
SetLast(genes, m) == <<[genes EXCEPT ![Len(genes)] = m[1][1]], m[2]>>

\* lines 78-81: the appliance start hour; g and the value are <<genes, generator state>>
mutate_hour_part(g) ==
    IF ~(Haushaltsgeraete > 0) THEN g
    ELSE SetLast(g[1], mutUniformInt(g[2], <<g[1][Len(g[1])]>>, start_hour, LastHour))

\* line 83: return (individual,)
SetGenes(ind, g) == <<[ind EXCEPT !.genes = g[1]], g[2]>>

\* mutate: <<individual, generator state>>
mutate(r, ind) ==
    SetGenes(ind, mutate_hour_part(mutate_ev_part(mutate_discharge_part(r, ind.genes))))

\* size = min(len(ind1), len(ind2))
CxSize(ind1, ind2) == MinOf(Len(ind1.genes), Len(ind2.genes))

\* ind1[cxpoint1:cxpoint2] = ind2[cxpoint1:cxpoint2]
CxSwap(cxpoint1, cxpoint2, r, ind1, ind2) ==
    [raised |-> FALSE,
     ind1 |-> [ind1 EXCEPT !.genes =
                 PySliceAssign(ind1.genes, cxpoint1, cxpoint2,
                               PySlice(ind2.genes, cxpoint1, cxpoint2))],
     rng |-> r]

\* if cxpoint2 >= cxpoint1: cxpoint2 += 1, else: swap the two points
CxOrder(p1, p2, ind1, ind2) ==
    IF p2[1] >= p1
    THEN CxSwap(p1, p2[1] + 1, p2[2], ind1, ind2)
    ELSE CxSwap(p2[1], p1, p2[2], ind1, ind2)

\* cxpoint2 = random.randint(1, size - 1)
CxSecond(p1, ind1, ind2) ==
    CxOrder(p1[1], randint(p1[2], 1, CxSize(ind1, ind2) - 1), ind1, ind2)

\* tools.cxTwoPoint(ind1, ind2): [raised, ind1, rng]; random.randint raises
\* ValueError on an empty range
cxTwoPoint(r, ind1, ind2) ==
    IF CxSize(ind1, ind2) < 2 THEN [raised |-> TRUE, rng |-> r]
    ELSE CxSecond(randint(r, 1, CxSize(ind1, ind2)), ind1, ind2)

\* The two distinct positions i and j[1] of a sample
SamplePair(i, j, pop) == <<pop[i], pop[IF j[1] >= i THEN j[1] + 1 ELSE j[1]], j[2]>>

SampleSecond(i, pop) == SamplePair(i[1], randint(i[2], 1, Len(pop) - 1), pop)

\* random.sample(population, 2): <<first, second, generator state>>
sample2(r, pop) == SampleSecond(randint(r, 1, Len(pop)), pop)

ChoiceAt(i, seq) == <<seq[i[1]], i[2]>>

\* random.choice(seq): <<element, generator state>>
choice(r, seq) == ChoiceAt(randint(r, 1, Len(seq)), seq)

\* algorithms.varOr(population, toolbox, lambda_, cxpb, mutpb):
\* [raised, offspring, rng]
RECURSIVE varOr(_, _, _)

\* ind1, ind2 = toolbox.mate(ind1, ind2), for s = random.sample(population, 2)
VarMate(s) == cxTwoPoint(s[3], s[1], s[2])

\* offspring.append(ind), for m = <<individual, generator state>>
VarChild(m) == [raised |-> FALSE, ind1 |-> m[1], rng |-> m[2]]

\* ind, = toolbox.mutate(ind), for c = random.choice(population)
VarMutate(c) == VarChild(mutate(c[2], c[1]))

\* The branch of varOr chosen by op_choice = random.random()
VarBranch(op_choice, r, pop) ==
    IF op_choice * ProbDen < CxpbNum * RngRange
    THEN VarMate(sample2(r, pop))
    ELSE IF op_choice * ProbDen < (CxpbNum + MutpbNum) * RngRange
    THEN VarMutate(choice(r, pop))
    ELSE VarChild(choice(r, pop))

VarAppend(ind, rest) ==
    [raised |-> rest.raised, offspring |-> <<ind>> \o rest.offspring, rng |-> rest.rng]

\* del ind.fitness.values for a mated or mutated child, and the later children
VarRest(reproduced, child, pop, lambda_) ==
    IF child.raised THEN [raised |-> TRUE, offspring |-> <<>>, rng |-> child.rng]
    ELSE VarAppend(IF reproduced THEN child.ind1 ELSE DelFitness(child.ind1),
                   varOr(child.rng, pop, lambda_ - 1))

VarStep(r, pop, lambda_) ==
    VarRest(RngOut(r) * ProbDen >= (CxpbNum + MutpbNum) * RngRange,
            VarBranch(RngOut(r), r, pop), pop, lambda_)

varOr(r, pop, lambda_) ==
    IF lambda_ = 0 THEN [raised |-> FALSE, offspring |-> <<>>, rng |-> r]
    ELSE VarStep(RngNext(r), pop, lambda_)

----------------------------------------------------------------------------
(* Selection, hall of fame, statistics *)

\* The comparison of a fitness with weights (1.0,): strictly greater value
FitnessGreater(ind1, ind2) == ind1.fitness[1] > ind2.fitness[1]

\* ind1.fitness > ind2.fitness with weights (-1.0,): strictly smaller value
FitnessBetter(ind1, ind2) == ind1.fitness[1] < ind2.fitness[1]

\* max(aspirants, key=attrgetter("fitness")): the first of the best
RECURSIVE BestOf(_)
BestOf(aspirants) ==
    IF Len(aspirants) = 1 THEN aspirants[1]
    ELSE LET b == BestOf(SubSeq(aspirants, 1, Len(aspirants) - 1))
             last == aspirants[Len(aspirants)]
         IN  IF FitnessBetter(last, b) THEN last ELSE b

\* tools.selRandom(individuals, k): <<list, generator state>>
RECURSIVE selRandom(_, _, _)
selRandom(r, individuals, k) ==
    IF k = 0 THEN <<(<<>>), r>>
    ELSE LET c == choice(r, individuals)
             rest == selRandom(c[2], individuals, k - 1)
         IN  <<(<<c[1]>>) \o rest[1], rest[2]>>

\* tools.selTournament(individuals, k, tournsize=3): <<list, generator state>>
RECURSIVE selTournament(_, _, _)
selTournament(r, individuals, k) ==
    IF k = 0 THEN <<(<<>>), r>>
    ELSE LET aspirants == selRandom(r, individuals, TournSize)
             rest == selTournament(aspirants[2], individuals, k - 1)
         IN  <<(<<BestOf(aspirants[1])>>) \o rest[1], rest[2]>>

\* A record of the best of the individuals just evaluated, which forgets the
\* earlier ones
BestOfLastUpdate(h, pop) == IF pop = <<>> THEN h ELSE <<BestOf(pop)>>

\* HallOfFame.update(population), maxsize 1, similar = operator.eq
RECURSIVE HofUpdate(_, _)
HofUpdate(h, pop) ==
    IF pop = <<>> THEN h
    ELSE LET h0 == IF h = <<>> THEN <<Head(pop)>> ELSE h
             ind == Head(pop)
             h1 == IF FitnessBetter(ind, h0[1]) /\ ind.genes # h0[1].genes
                   THEN <<ind>> ELSE h0
         IN  HofUpdate(h1, Tail(pop))

\* stats.compile(population)["min"]
RECURSIVE StatsMin(_)
StatsMin(pop) ==
    IF Len(pop) = 1 THEN pop[1].fitness[1]
    ELSE MinOf(Head(pop).fitness[1], StatsMin(Tail(pop)))

FitnessValues(inds) == {inds[i].fitness[1] : i \in 1 .. Len(inds)}

----------------------------------------------------------------------------
(* Inputs of a call *)

\* parameter["eauto_min_soc"]: below, at and above parameter["eauto_soc"]
EautoMinSocs == {EautoSoc - SocStep, EautoSoc, EautoSoc + SocStep}

\* A plan of the documented layout: charge in every hour, no EV charge, the
\* appliance (when there is one) at the last hour
GoodStart(H, dauer) ==
    [i \in 1 .. H |-> -1] \o Zeros(H) \o (IF dauer > 0 THEN <<LastHour>> ELSE <<>>)

\* The same plan with its last gene missing
ShortStart(H, dauer) == SubSeq(GoodStart(H, dauer), 1, Len(GoodStart(H, dauer)) - 1)

\* The same plan with an EV gene that is no index of possible_ev_charge_currents
BadIndexStart(H, dauer) == [GoodStart(H, dauer) EXCEPT ![H + 1] = NumCurrents]

StartSolutions(H, dauer) ==
    {None, GoodStart(H, dauer), ShortStart(H, dauer), BadIndexStart(H, dauer)}

Parameters(H) ==
    {[eauto_min_soc |-> m, eauto_soc |-> EautoSoc, haushaltsgeraet_dauer |-> d,
      start_solution |-> s] :
        m \in EautoMinSocs, d \in {0, 2}, s \in StartSolutions(H, 0) \cup StartSolutions(H, 2)}

----------------------------------------------------------------------------
(* State machine *)

\* __init__ (lines 25-36), and the arguments the caller passes to its calls
Init ==
    /\ prediction_hours \in 1 .. MaxH
    /\ fixed_eauto_hours \in 0 .. prediction_hours
    /\ fix_seed \in {NoSeed} \cup (0 .. MaxSeed)
    /\ rng \in (IF fix_seed = NoSeed THEN EntropyStates ELSE {Seed(fix_seed)})
    /\ optimize_ev = TRUE
    /\ opti_param = [is_none |-> TRUE, haushaltsgeraete |-> 0]
    /\ parameter \in {p \in Parameters(prediction_hours) :
                        p.start_solution \in
                            StartSolutions(prediction_hours, p.haushaltsgeraet_dauer)}
    /\ start_hour = LastHour - HourSpan
    /\ worst_case \in BOOLEAN
    /\ ngen \in 0 .. MaxGen
    /\ pc = "idle"
    /\ population = <<>>
    /\ offspring = <<>>
    /\ hof = <<>>
    /\ logbook = <<>>
    /\ gen = 0
    /\ calls = 0
    /\ result = <<>>
    /\ first_result = <<>>
    /\ evaluated = {}

\* optimierung_ems, lines 313-315 and 351-355: the EV switch and
\* setup_deap_environment
optimierung_ems ==
    /\ pc \in {"idle", "returned", "failed"}
    /\ calls < MaxCalls
    /\ calls' = calls + 1
    /\ optimize_ev' = ~(parameter.eauto_min_soc - parameter.eauto_soc < 0)
    /\ opti_param' = [is_none |-> FALSE,
                      haushaltsgeraete |->
                          IF parameter.haushaltsgeraet_dauer > 0 THEN 1 ELSE 0]
    /\ population' = <<>>
    /\ offspring' = <<>>
    /\ hof' = <<>>
    /\ logbook' = <<>>
    /\ gen' = 0
    /\ evaluated' = {}
    /\ pc' = "optimize"
    /\ UNCHANGED <<prediction_hours, fixed_eauto_hours, fix_seed, rng, parameter,
                   start_hour, worst_case, ngen, result, first_result>>

\* toolbox.population(n): <<list, generator state>>
RECURSIVE toolbox_population(_, _)
toolbox_population(r, n) ==
    IF n = 0 THEN <<(<<>>), r>>
    ELSE LET c == create_individual(r)
             rest == toolbox_population(c[2], n - 1)
         IN  <<(<<c[1]>>) \o rest[1], rest[2]>>

\* lines 258-261: the copies of the start solution at the head of the population
insert_start_solution(pop, start_solution) ==
    IF start_solution # None
    THEN [i \in 1 .. StartCopies |-> Individual(start_solution)] \o pop
    ELSE pop

\* optimize, lines 250-261
optimize_population ==
    /\ pc = "optimize"
    /\ LET p == toolbox_population(rng, PopN)
       IN  /\ population' = insert_start_solution(p[1], parameter.start_solution)
           /\ rng' = p[2]
    /\ pc' = "gen0"
    /\ UNCHANGED <<prediction_hours, fixed_eauto_hours, fix_seed, optimize_ev, opti_param,
                   parameter, start_hour, worst_case, ngen, offspring, hof, logbook, gen,
                   calls, result, first_result, evaluated>>

\* eaMuPlusLambda before its loop: evaluate the population, update the hall
\* of fame, record generation 0
ea_generation0 ==
    /\ pc = "gen0"
    /\ LET pop == EvaluateInvalid(population)
       IN  /\ population' = pop
           /\ evaluated' = evaluated \cup FitnessValues(pop)
           /\ hof' = HofUpdate(hof, pop)
           /\ logbook' = Append(logbook, StatsMin(pop))
    /\ pc' = IF ngen = 0 THEN "collect" ELSE "vary"
    /\ UNCHANGED <<prediction_hours, fixed_eauto_hours, fix_seed, optimize_ev, opti_param,
                   rng, parameter, start_hour, worst_case, ngen, offspring, gen, calls,
                   result, first_result>>

\* eaMuPlusLambda, one generation: offspring = varOr(...); an exception of
\* toolbox.mate ends the call
ea_vary ==
    /\ pc = "vary"
    /\ LET v == varOr(rng, population, Lambda)
       IN  /\ rng' = v.rng
           /\ offspring' = v.offspring
           /\ pc' = IF v.raised THEN "failed" ELSE "evaluate"
    /\ UNCHANGED <<prediction_hours, fixed_eauto_hours, fix_seed, optimize_ev, opti_param,
                   parameter, start_hour, worst_case, ngen, population, hof, logbook, gen,
                   calls, result, first_result, evaluated>>

\* eaMuPlusLambda, one generation: evaluate the offspring, update the hall of fame
ea_evaluate ==
    /\ pc = "evaluate"
    /\ LET off == EvaluateInvalid(offspring)
       IN  /\ offspring' = off
           /\ evaluated' = evaluated \cup FitnessValues(off)
           /\ hof' = HofUpdate(hof, off)
    /\ pc' = "select"
    /\ UNCHANGED <<prediction_hours, fixed_eauto_hours, fix_seed, optimize_ev, opti_param,
                   rng, parameter, start_hour, worst_case, ngen, population, logbook, gen,
                   calls, result, first_result>>

\* eaMuPlusLambda, one generation: population[:] = toolbox.select(population +
\* offspring, mu), record the generation
ea_select ==
    /\ pc = "select"
    /\ LET s == selTournament(rng, population \o offspring, Mu)
       IN  /\ population' = s[1]
           /\ rng' = s[2]
           /\ logbook' = Append(logbook, StatsMin(s[1]))
    /\ offspring' = <<>>
    /\ gen' = gen + 1
    /\ pc' = IF gen + 1 >= ngen THEN "collect" ELSE "vary"
    /\ UNCHANGED <<prediction_hours, fixed_eauto_hours, fix_seed, optimize_ev, opti_param,
                   parameter, start_hour, worst_case, ngen, hof, calls, result,
                   first_result, evaluated>>

\* lines 277-283: the diagnostics of the final population
RECURSIVE member(_)
member(pop) ==
    IF pop = <<>> THEN <<>>
    ELSE (IF HasExtraData(Head(pop)) THEN <<Head(pop).extra_data>> ELSE <<>>)
         \o member(Tail(pop))

\* optimize, lines 277-285, and optimierung_ems, lines 356-416: the result is
\* <<start_solution, extra_data>>; the final evaluate_inner is not guarded
optimize_return ==
    /\ pc = "collect"
    /\ LET raised == evaluate_inner(hof[1].genes).raised
           res == <<hof[1].genes, member(population)>>
       IN  /\ pc' = IF raised THEN "failed" ELSE "returned"
           /\ result' = IF raised THEN <<>> ELSE res
           /\ first_result' = IF calls = 1 /\ ~raised THEN res ELSE first_result
    /\ UNCHANGED <<prediction_hours, fixed_eauto_hours, fix_seed, optimize_ev, opti_param,
                   rng, parameter, start_hour, worst_case, ngen, population, offspring,
                   hof, logbook, gen, calls, evaluated>>

Next ==
    \/ optimierung_ems
    \/ optimize_population
    \/ ea_generation0
    \/ ea_vary
    \/ ea_evaluate
    \/ ea_select
    \/ optimize_return

Spec == Init /\ [][Next]_vars

----------------------------------------------------------------------------
(* Properties *)

\* The individuals of the running call
Individuals == {population[i] : i \in 1 .. Len(population)}
                   \cup {offspring[i] : i \in 1 .. Len(offspring)}

\* The individuals whose last evaluation went through the simulation
Simulated == {ind \in Individuals : FitnessValid(ind) /\ ~evaluate_inner(ind.genes).raised}

\* Positions [2H - ev_locked_tail, 2H) of a genome, counted from 1
LockedTail == (2 * prediction_hours - fixed_eauto_hours + 1) .. (2 * prediction_hours)

\* C1: with EV optimization enabled, every individual of the run has EV
\* genes equal to 0 at the positions [2H - ev_locked_tail, 2H).  Stated for
\* the runs without a start solution, where every individual comes from
\* create_individual, mutate or the crossover.
C1_LockedTailIsZero ==
    (calls >= 1 /\ optimize_ev /\ parameter.start_solution = None)
        => \A ind \in Individuals :
               \A i \in LockedTail : i <= Len(ind.genes) => ind.genes[i] = 0

C3_HallOfFameIsBestEvaluated ==
    (evaluated # {}) =>
        /\ hof # <<>>
        /\ hof[1].fitness[1] \in evaluated
        /\ \A f \in evaluated : hof[1].fitness[1] <= f

\* C3, the case: a run with a start solution has returned, and an offspring
\* of a later generation beat the whole initial population
C3_Witness ==
    /\ pc = "returned"
    /\ parameter.start_solution # None
    /\ Len(logbook) >= 2
    /\ hof[1].fitness[1] < logbook[1]
    /\ Cardinality(evaluated) >= 3

\* C4: on an optimizer configured with a fixed seed, a later call with the
\* same parameters returns the same best genome and the same diagnostic
\* arrays as the first call.
C4_SeededCallsAgree ==
    (fix_seed # NoSeed /\ calls >= 2 /\ pc = "returned" /\ first_result # <<>>)
        => result = first_result

\* C5: the EV under-SoC term of the fitness is the penalty weight per hour
\* with a non-zero EV gene exactly when the shortfall is greater than 0, and
\* 0 when the shortfall is at most 0.  Stated for the runs with EV
\* optimization enabled and no start solution.
C5_EvPenaltyOnlyOnShortfall ==
    (calls >= 1 /\ optimize_ev /\ parameter.start_solution = None)
        => \A ind \in Simulated :
               LET shortfall == ind.extra_data[3]
                   ev == split_individual(ind.genes)[2]
               IN  ev_penalty(shortfall, ev) =
                       (IF shortfall > 0 THEN Strafe * CountNonZero(ev) ELSE 0)

\* C6: a battery-action vector without a negative gene decodes to a charge
\* vector that is 0 in every hour and to the discharge vector max(gene, 0);
\* with a negative gene the charge vector is the magnitude divided by the
\* largest magnitude, so its peak is 1.
C6_DecodeBattery ==
    \A ind \in Simulated :
        LET bin == split_individual(ind.genes)[1]
            cd == split_charge_discharge(bin)
            hours == 1 .. Len(bin)
        IN  /\ \A h \in hours : cd[2][h] = MaxOf(bin[h], 0)
            /\ (\A h \in hours : bin[h] >= 0)
                   => \A h \in hours : cd[1][h] # NaN /\ cd[1][h][1] = 0
            /\ (\E h \in hours : bin[h] < 0)
                   => /\ \A h \in hours : cd[1][h] # NaN /\ cd[1][h][1] = MaxOf(-bin[h], 0)
                      /\ \E h \in hours : cd[1][h][1] = cd[1][h][2]

\* C7: no individual whose latest evaluation returned the sentinel fitness
\* holds a diagnostic tuple.  Stated for the runs where the only failure is
\* the IndexError of the current lookup in evaluate_inner, on the EV gene of
\* a start solution that is no index of possible_ev_charge_currents.
C7_SentinelHasNoDiagnostics ==
    (/\ calls >= 1
     /\ optimize_ev
     /\ parameter.start_solution =
            BadIndexStart(prediction_hours, parameter.haushaltsgeraet_dauer))
        => \A ind \in Individuals : ind.fitness = <<Sentinel>> => ~HasExtraData(ind)

\* C8: every individual of every population has length 2H + 1 with an
\* appliance and 2H without, also when EV optimization is disabled, and
\* split_individual returns H battery genes and H EV genes.  Stated for the
\* runs without a start solution.
C8_GenomeLength ==
    (calls >= 1 /\ parameter.start_solution = None)
        => \A ind \in Individuals :
               /\ Len(ind.genes) = 2 * prediction_hours + Haushaltsgeraete
               /\ Len(split_individual(ind.genes)[1]) = prediction_hours
               /\ Len(split_individual(ind.genes)[2]) = prediction_hours

\* C9: with ev_min_soc below ev_start_soc, EV optimization is disabled and
\* for every evaluated individual the EV under-SoC term and the shortfall
\* term of the fitness are 0, with or without an appliance gene.  Stated
\* for the runs without a start solution; the boundary ev_min_soc =
\* ev_start_soc of the claim is the formula after this one.
C9_AutoDisabledPenaltiesZero ==
    (calls >= 1 /\ parameter.eauto_min_soc < parameter.eauto_soc
                /\ parameter.start_solution = None)
        => /\ ~optimize_ev
           /\ \A ind \in Simulated :
                  /\ ev_penalty(ind.extra_data[3], split_individual(ind.genes)[2]) = 0
                  /\ soc_penalty(ind.extra_data[3]) = 0

\* C9, the boundary: with ev_min_soc at most ev_start_soc, EV optimization
\* is disabled
C9_AutoDisabledAtEquality ==
    (calls >= 1 /\ parameter.eauto_min_soc <= parameter.eauto_soc) => ~optimize_ev

\* C10: a start solution whose length differs from the genome length of the
\* run is rejected before the loop: no individual built from it is in the
\* population, nothing is evaluated, and the call does not return a result.
\* Stated for the runs with EV optimization enabled, where the genome length
\* is 2H plus the appliance gene.
C10_WrongLengthStartRejected ==
    (/\ calls >= 1
     /\ optimize_ev
     /\ parameter.start_solution # None
     /\ Len(parameter.start_solution) # 2 * prediction_hours + Haushaltsgeraete)
        => /\ \A ind \in Individuals : ind.genes # parameter.start_solution
           /\ evaluated = {}
           /\ pc # "returned"

====
